---- MODULE Spec2Model ----
(***************************************************************************)
(* Token Authority of app-server (src/server/server.go): issuance,         *)
(* validation and revocation of JWT refresh tokens mirrored in Redis under *)
(* refresh_token:<user_id>, and issuance of stateless access tokens.       *)
(*                                                                         *)
(* Time is counted in ticks, TicksPerSec ticks to the unix second, so that *)
(* the truncation of exp to whole seconds (time.Now()...Unix()) and the    *)
(* sub-second instant of the Redis SET are both visible.                   *)
(***************************************************************************)
EXTENDS Integers, Sequences, FiniteSets, TLC

\* ------------------------------------------------------------------ bounds
MaxTime == 5          \* last clock tick explored
TicksPerSec == 2      \* clock resolution below the unix second
RefreshTTL == 2       \* Cfg.JWT.RefreshExpiry, scaled to seconds
AccessTTL == 1        \* Cfg.JWT.AccessExpiry, scaled to seconds

\* The request goroutines that may be inside GenerateRefreshToken at once.
\* They are interchangeable: g2 names a call that starts while g1's call is
\* still in flight.
Procs == {"g1", "g2"}

\* ------------------------------------------------------------- user ids
\* A Go uint (64 bit) is written [hi, lo] and stands for hi * 2^53 + lo.
U(h, l) == [hi |-> h, lo |-> l]

\* The users tokens are issued for: 2^53, which a float64 holds exactly as
\* it does every smaller id, and 2^53 + 1, the first id it does not.
UserIDs == {U(1, 0), U(1, 1)}

Zero == U(0, 0)

\* claims["user_id"] = userID is marshalled as a JSON number and comes back
\* from jwt.Parse as a float64: 53 bits of significand, round to nearest,
\* ties to even.  Below 2^53 every integer is exact; in [2^53, 2^54) only
\* the even ones are.
Float64Of(u) ==
    IF u.hi = 0 \/ u.lo % 2 = 0 THEN u
    ELSE IF ((u.lo - 1) \div 2) % 2 = 0 THEN U(u.hi, u.lo - 1)
    ELSE U(u.hi, u.lo + 1)

\* ---------------------------------------------------------------- tokens
\* The user_id claim of a token: a JSON number, a JSON string, or missing.
NumClaim(u) == [kind |-> "number", n |-> u]
StrClaim == [kind |-> "string", n |-> Zero]
NoClaim == [kind |-> "absent", n |-> Zero]

Absent == -1          \* a registered time claim (exp, nbf) that is missing

\* A compact JWT.  Two tokens are the same string exactly when they agree
\* on the header algorithm, the payload and the signature.
Tok(alg, sig, typ, uid, exp, nbf, role) ==
    [alg |-> alg, sig |-> sig, typ |-> typ, uid |-> uid,
     exp |-> exp, nbf |-> nbf, role |-> role]

\* The empty string "" where a token string is expected.
NoToken == [none |-> TRUE]

Unix(t) == t \div TicksPerSec

\* server.go 180-189: the refresh token signed at tick t for userID.
\* SignedString with an HMAC method and a []byte key does not fail.
SignRefresh(userID, t) ==
    Tok("HS256", "good", "refresh", NumClaim(userID),
        Unix(t) + RefreshTTL, Absent, "")

\* server.go 148-169: the access token signed at tick t.
SignAccess(userID, role, t) ==
    Tok("HS256", "good", "<absent>", NumClaim(userID),
        Unix(t) + AccessTTL, Unix(t), role)

Roles == {"user"}

\* ----------------------------------------------------------------- state
VARIABLES
    now,      \* the wall clock, in ticks
    cache,    \* Redis: the entry stored under refresh_token:<user id>
    gen,      \* per goroutine: the GenerateRefreshToken call between its
              \* SignedString and the reply of its Redis SET
    last      \* the call that has just completed, with its result

vars == <<now, cache, gen, last>>

NoEntry == [val |-> NoToken, expireAt |-> 0]

Idle == [busy |-> FALSE]

\* The result of one call: the value and error it returned, the cause the
\* error wraps (%w), and the number of Redis commands it sent.
\* uid and tok are the arguments, rtok and ruid the values returned; old is
\* the value a GET of the key written or deleted returned before the call.
Result(op, uid, tok, rtok, ruid, err, cause, calls, old) ==
    [op |-> op, uid |-> uid, tok |-> tok, rtok |-> rtok, ruid |-> ruid,
     err |-> err, cause |-> cause, calls |-> calls, old |-> old]

NoCall == Result("", Zero, NoToken, NoToken, Zero, "", "", 0, NoToken)

\* ----------------------------------------------------------------- Redis
\* A key set with a TTL is gone once the TTL has run out.
Live(key) ==
    /\ key \in DOMAIN cache
    /\ cache[key] # NoEntry
    /\ now < cache[key].expireAt

\* The value stored under the key, NoToken when there is none.
Stored(key) == IF Live(key) THEN cache[key].val ELSE NoToken

\* Redis.Client.Get(ctx, key).Result(): the value, or redis.Nil for a
\* missing key, or the transport's error when the server is not reached.
RedisGet(key, netOK) ==
    IF ~netOK THEN [val |-> NoToken, err |-> "transport"]
    ELSE IF Live(key) THEN [val |-> cache[key].val, err |-> ""]
    ELSE [val |-> NoToken, err |-> "redis: nil"]

\* ------------------------------------------------- ValidateRefreshToken
HMAC == {"HS256", "HS384", "HS512"}

Algs == {"HS256", "HS384", "RS256"}

\* Mutant: a key function that hands out the key for every method.
KeyFuncOK_AnyMethod(tok) == tok.alg \in Algs \cup HMAC

\* server.go 214: token.Method.(*jwt.SigningMethodHMAC)
KeyFuncOK(tok) == tok.alg \in HMAC

\* jwt validator: exp is honoured when present, now must be before it.
Expired(tok) == tok.exp # Absent /\ now >= tok.exp * TicksPerSec

NotYetValid(tok) == tok.nbf # Absent /\ now < tok.nbf * TicksPerSec

\* Mutant: jwt.Parse that does not look at exp.
JwtParse_NoExpiry(tok) ==
    IF ~KeyFuncOK(tok) THEN "token is unverifiable"
    ELSE IF tok.sig # "good" THEN "signature is invalid"
    ELSE IF NotYetValid(tok) THEN "token is not valid yet"
    ELSE ""

\* jwt.Parse (server.go 212-218): key function, then the signature, then
\* the registered time claims; "" when the token is valid.
JwtParse(tok) ==
    IF ~KeyFuncOK(tok) THEN "token is unverifiable"
    ELSE IF tok.sig # "good" THEN "signature is invalid"
    ELSE IF Expired(tok) THEN "token is expired"
    ELSE IF NotYetValid(tok) THEN "token is not valid yet"
    ELSE ""

\* Mutant: only a token that says "access" is turned away.
TokenTypeOK_DenyAccessOnly(tok) == tok.typ # "access"

\* server.go 236-237: claims["token_type"].(string), then == "refresh"
TokenTypeOK(tok) == tok.typ \notin {"<absent>", "<number>"} /\ tok.typ = "refresh"

\* server.go 242: claims["user_id"].(float64)
UserIDOK(tok) == tok.uid.kind = "number"

\* server.go 242-246: the user id as the server reads it from the claims.
DecodeUserID(tok) == Float64Of(tok.uid.n)

\* Mutant: the stored value is fetched but not compared.
StoredMatches_Unchecked(storedToken, tokenString) == TRUE

\* server.go 255
StoredMatches(storedToken, tokenString) == storedToken = tokenString

\* Mutant: the user_id check runs before the token_type check.
ValidateRefreshToken_UserIDFirst(tokenString, netOK) ==
    LET perr == JwtParse(tokenString)
        userID == DecodeUserID(tokenString)
        got == RedisGet(userID, netOK)
        R(ruid, err, cause, calls) ==
            Result("validate", Zero, tokenString, NoToken, ruid, err, cause,
                   calls, NoToken)
    IN  IF perr # "" THEN R(Zero, "invalid refresh token", perr, 0)
        ELSE IF ~UserIDOK(tokenString)
            THEN R(Zero, "invalid user ID in token", "", 0)
        ELSE IF ~TokenTypeOK(tokenString)
            THEN R(Zero, "invalid token type", "", 0)
        ELSE IF got.err # ""
            THEN R(Zero, "refresh token not found", got.err, 1)
        ELSE IF ~StoredMatches(got.val, tokenString)
            THEN R(Zero, "refresh token has been revoked", "", 1)
        ELSE R(userID, "", "", 1)

\* ValidateRefreshToken (server.go 210-260) on tokenString, the Redis GET
\* reaching the server or not.
ValidateRefreshToken(tokenString, netOK) ==
    LET perr == JwtParse(tokenString)
        userID == DecodeUserID(tokenString)
        got == RedisGet(userID, netOK)
        R(ruid, err, cause, calls) ==
            Result("validate", Zero, tokenString, NoToken, ruid, err, cause,
                   calls, NoToken)
    IN  IF perr # "" THEN R(Zero, "invalid refresh token", perr, 0)
        ELSE IF ~TokenTypeOK(tokenString)
            THEN R(Zero, "invalid token type", "", 0)
        ELSE IF ~UserIDOK(tokenString)
            THEN R(Zero, "invalid user ID in token", "", 0)
        ELSE IF got.err # ""
            THEN R(Zero, "refresh token not found", got.err, 1)
        ELSE IF ~StoredMatches(got.val, tokenString)
            THEN R(Zero, "refresh token has been revoked", "", 1)
        ELSE R(userID, "", "", 1)

\* ------------------------------------------------- GenerateRefreshToken
\* Mutant: the signed token is returned although the SET failed.
GenerateRefreshTokenReturn_Leak(userID, tokenString, setOK) ==
    Result("generate", userID, NoToken, tokenString, Zero,
           IF setOK THEN "" ELSE "failed to store refresh token",
           IF setOK THEN "" ELSE "transport", 1, Stored(userID))

\* server.go 196-206: what the call returns once the Redis SET has replied.
GenerateRefreshTokenReturn(userID, tokenString, setOK) ==
    IF setOK
    THEN Result("generate", userID, NoToken, tokenString, Zero, "", "", 1,
                Stored(userID))
    ELSE Result("generate", userID, NoToken, NoToken, Zero,
                "failed to store refresh token", "transport", 1,
                Stored(userID))

\* server.go 196-201: SET refresh_token:<userID> tokenString EX ttl
RedisSet(key, value, ttl) ==
    [cache EXCEPT ![key] = [val |-> value, expireAt |-> now + ttl]]

\* server.go 265: DEL refresh_token:<userID>
RedisDel(key) == [cache EXCEPT ![key] = NoEntry]

\* --------------------------------------------------- RevokeRefreshToken
\* Mutant: deleting a key that holds no entry is reported as an error.
RevokeRefreshTokenReturn_AbsentIsError(userID, delOK) ==
    IF delOK /\ Stored(userID) # NoToken
    THEN Result("revoke", userID, NoToken, NoToken, Zero, "", "", 1,
                Stored(userID))
    ELSE Result("revoke", userID, NoToken, NoToken, Zero,
                "failed to revoke refresh token",
                IF delOK THEN "" ELSE "transport", 1, Stored(userID))

\* server.go 263-270: what the call returns once the Redis DEL has replied.
RevokeRefreshTokenReturn(userID, delOK) ==
    IF delOK
    THEN Result("revoke", userID, NoToken, NoToken, Zero, "", "", 1,
                Stored(userID))
    ELSE Result("revoke", userID, NoToken, NoToken, Zero,
                "failed to revoke refresh token", "transport", 1,
                Stored(userID))

\* ------------------------------------------------------- presented tokens
\* Token strings a client can present without having been issued them.
\* Gate1 lists a header, signature and exp that pass jwt.Parse and ones
\* that fail it; the first set crosses them with a passing and a failing
\* token_type and user_id, the second adds the remaining shapes.
Gate1 ==
    { <<"HS256", "good", MaxTime + 1>>, <<"RS256", "good", MaxTime + 1>>,
      <<"HS256", "bad", MaxTime + 1>>, <<"HS256", "good", 1>> }

Forged ==
    { Tok(g[1], g[2], ty, u, g[3], Absent, "") :
        g \in Gate1, ty \in {"refresh", "<absent>"},
        u \in {NumClaim(U(1, 1)), StrClaim} }
    \cup
    { Tok("HS384", "good", "refresh", NumClaim(U(1, 0)), MaxTime + 1, Absent, ""),
      Tok("RS256", "bad", "refresh", NumClaim(U(1, 0)), 1, Absent, ""),
      Tok("HS256", "good", "access", NumClaim(U(0, 1)), MaxTime + 1, Absent, ""),
      Tok("HS256", "good", "<number>", NumClaim(U(0, 1)), MaxTime + 1, Absent, ""),
      Tok("HS256", "good", "refresh", NoClaim, MaxTime + 1, Absent, ""),
      Tok("HS256", "good", "refresh", NumClaim(U(0, 1)), Absent, Absent, "") }

\* Every string GenerateRefreshToken or GenerateJWTToken can have produced
\* by now: both sign a payload fixed by their arguments and the clock.
Signable ==
    { SignRefresh(u, t) : u \in UserIDs, t \in 0..now }
    \cup { SignAccess(u, r, t) : u \in UserIDs, r \in Roles, t \in 0..now }

Presentable == Signable \cup Forged

\* --------------------------------------------------------------- actions
Init ==
    /\ now = 0
    /\ cache = [u \in UserIDs |-> NoEntry]
    /\ gen = [p \in Procs |-> Idle]
    /\ last = NoCall

\* Time passes; Redis drops the entries whose TTL runs out at the new
\* instant.
Tick ==
    /\ last = NoCall
    /\ now < MaxTime
    /\ now' = now + 1
    /\ cache' = [u \in UserIDs |->
                    IF cache[u] # NoEntry /\ now + 1 >= cache[u].expireAt
                    THEN NoEntry ELSE cache[u]]
    /\ UNCHANGED <<gen, last>>

\* GenerateRefreshToken up to and including SignedString (server.go
\* 178-192); the SET is on its way.
GenSign(p, userID) ==
    /\ last = NoCall
    /\ ~gen[p].busy
    /\ p = "g2" => gen["g1"].busy
    /\ gen' = [gen EXCEPT ![p] =
                  [busy |-> TRUE, uid |-> userID,
                   tok |-> SignRefresh(userID, now)]]
    /\ UNCHANGED <<now, cache, last>>

\* The SET is applied or fails, and GenerateRefreshToken returns
\* (server.go 194-206).
GenStore(p, setOK) ==
    /\ last = NoCall
    /\ gen[p].busy
    /\ cache' = IF setOK
                THEN RedisSet(gen[p].uid, gen[p].tok, RefreshTTL * TicksPerSec)
                ELSE cache
    /\ last' = GenerateRefreshTokenReturn(gen[p].uid, gen[p].tok, setOK)
    /\ gen' = [gen EXCEPT ![p] = Idle]
    /\ UNCHANGED now

\* GenerateJWTToken (server.go 146-175).
GenerateJWTToken(userID, role) ==
    /\ last = NoCall
    /\ last' = Result("access", userID, NoToken,
                      SignAccess(userID, role, now), Zero, "", "", 0,
                      NoToken)
    /\ UNCHANGED <<now, cache, gen>>

\* Mutant: a validation that consumes the token it accepts.
Validate_Consume(tokenString, netOK) ==
    /\ last = NoCall
    /\ last' = ValidateRefreshToken(tokenString, netOK)
    /\ cache' = IF last'.err = "" THEN RedisDel(last'.ruid) ELSE cache
    /\ UNCHANGED <<now, gen>>

\* ValidateRefreshToken (server.go 210-260).
Validate(tokenString, netOK) ==
    /\ last = NoCall
    /\ last' = ValidateRefreshToken(tokenString, netOK)
    /\ UNCHANGED <<now, cache, gen>>

\* RevokeRefreshToken (server.go 263-270).
Revoke(userID, delOK) ==
    /\ last = NoCall
    /\ cache' = IF delOK THEN RedisDel(userID) ELSE cache
    /\ last' = RevokeRefreshTokenReturn(userID, delOK)
    /\ UNCHANGED <<now, gen>>

\* The caller has taken the result of the completed call.
Return ==
    /\ last # NoCall
    /\ last' = NoCall
    /\ UNCHANGED <<now, cache, gen>>

Next ==
    \/ Tick
    \/ \E p \in Procs, u \in UserIDs : GenSign(p, u)
    \/ \E p \in Procs, ok \in BOOLEAN : GenStore(p, ok)
    \/ \E u \in UserIDs, r \in Roles : GenerateJWTToken(u, r)
    \/ \E t \in Presentable, ok \in BOOLEAN : Validate(t, ok)
    \/ \E u \in UserIDs, ok \in BOOLEAN : Revoke(u, ok)
    \/ Return

Spec == Init /\ [][Next]_vars

\* ================================================================ claims
\* The error kinds of the specification, by the message the code returns.
InvalidTokenErrs ==
    {"invalid refresh token", "invalid token claims", "invalid token type",
     "invalid user ID in token"}

NotFoundErr == "refresh token not found"

RevokedErr == "refresh token has been revoked"

PersistenceErrs ==
    {"failed to store refresh token", "failed to revoke refresh token"}

\* What ValidateRefreshToken answers in the current state, Redis reachable.
Answer(t) == ValidateRefreshToken(t, TRUE)

\* exp lies strictly before the current instant.
ExpInPast(t) == t.exp # Absent /\ t.exp * TicksPerSec < now

\* The token verifies under key and header and its time claims hold now.
WellSigned(t) ==
    /\ t.alg \in HMAC
    /\ t.sig = "good"
    /\ t.exp = Absent \/ now < t.exp * TicksPerSec
    /\ t.nbf = Absent \/ now >= t.nbf * TicksPerSec

\* C1: right after GenerateRefreshToken(u) has returned T without error,
\* ValidateRefreshToken(T), with Redis reachable and T not yet expired,
\* succeeds and returns u.
C1_RoundTrip ==
    (last.op = "generate" /\ last.err = "" /\ WellSigned(last.rtok))
        => (Answer(last.rtok).err = "" /\ Answer(last.rtok).ruid = last.uid)

\* C2: when a successful GenerateRefreshToken(u) returning T2 replaces the
\* token T1 that an earlier successful call stored for u, then (both tokens
\* unexpired, Redis reachable) validating T1 fails with the revoked error
\* and validating T2 succeeds and returns u.
C2_Supersession ==
    (/\ last.op = "generate" /\ last.err = ""
     /\ last.old # NoToken
     /\ WellSigned(last.old) /\ WellSigned(last.rtok))
        => /\ Answer(last.old).err = RevokedErr
           /\ Answer(last.rtok).err = ""
           /\ Answer(last.rtok).ruid = last.uid

\* C3: when RevokeRefreshToken(u) succeeds while T is stored for u, then
\* validating T (unexpired, Redis reachable) fails with the not-found
\* error, neither succeeding nor failing as revoked.
C3_Revocation ==
    (/\ last.op = "revoke" /\ last.err = ""
     /\ last.old # NoToken /\ WellSigned(last.old))
        => Answer(last.old).err = NotFoundErr

\* C4: in every reachable state a token that ValidateRefreshToken accepts
\* for a user id is the value stored under that user's key, so at most one
\* token per user id is accepted; every successful call obeys this.  (The
\* answer depends on the clock and the cache only, and every clock and
\* cache reached is reached between two calls, where last = NoCall.)
C4_AtMostOneLive ==
    /\ last = NoCall
          => \A t \in Presentable :
                Answer(t).err = "" => Stored(Answer(t).ruid) = t
    /\ (last.op = "validate" /\ last.err = "")
          => Stored(last.ruid) = last.tok

\* A call accepted one token while another well-signed, unexpired refresh
\* token for the same user was presentable and is refused as revoked.
C4_Witness ==
    /\ last.op = "validate" /\ last.err = ""
    /\ \E t \in Signable :
          /\ t # last.tok /\ t.typ = "refresh" /\ WellSigned(t)
          /\ t.uid = last.tok.uid
          /\ Answer(t).err = RevokedErr

\* C5: a well-signed, unexpired token whose token_type is missing, not a
\* string or not "refresh" is refused with "invalid token type" before
\* Redis is read; every access token of GenerateJWTToken is refused with an
\* invalid-token error.
C5_TypeGate ==
    last.op = "validate" =>
        /\ (WellSigned(last.tok) /\ last.tok.typ # "refresh")
              => (last.err = "invalid token type" /\ last.calls = 0)
        /\ last.tok.role # "" => last.err \in InvalidTokenErrs

\* An unexpired access token was refused while the user's key held a token.
C5_Witness ==
    /\ last.op = "validate"
    /\ last.tok.role # "" /\ WellSigned(last.tok)
    /\ Stored(DecodeUserID(last.tok)) # NoToken
    /\ last.err = "invalid token type"

\* C6: a refresh token whose exp is in the past is refused with the
\* invalid-token error "invalid refresh token", Redis not being read,
\* whatever the cache holds.
C6_ExpiryGate ==
    (last.op = "validate" /\ last.tok.typ = "refresh" /\ ExpInPast(last.tok))
        => (last.err = "invalid refresh token" /\ last.calls = 0)

\* An expired refresh token was refused while Redis still stored exactly
\* that string under the user's key.
C6_Witness ==
    /\ last.op = "validate"
    /\ last.tok.typ = "refresh" /\ ExpInPast(last.tok)
    /\ last.tok.alg = "HS256" /\ last.tok.sig = "good"
    /\ Stored(DecodeUserID(last.tok)) = last.tok
    /\ last.err = "invalid refresh token"

\* C7: ValidateRefreshToken returns the error of the first failing check
\* in the order (1) algorithm, signature, expiry, (2) token_type,
\* (3) user_id, (4) Redis lookup, (5) equality with the stored value, and
\* sends a Redis command only when checks 1 to 3 passed.
C7_GateOrder ==
    last.op = "validate" =>
        LET t == last.tok
            f1 == ~WellSigned(t)
            f2 == t.typ # "refresh"
            f3 == t.uid.kind # "number"
            f4 == last.cause # "" \/ Stored(DecodeUserID(t)) = NoToken
        IN  /\ f1 => (last.err = "invalid refresh token" /\ last.calls = 0)
            /\ (~f1 /\ f2) => (last.err = "invalid token type" /\ last.calls = 0)
            /\ (~f1 /\ ~f2 /\ f3)
                  => (last.err = "invalid user ID in token" /\ last.calls = 0)
            /\ (~f1 /\ ~f2 /\ ~f3) => last.calls = 1
            /\ (~f1 /\ ~f2 /\ ~f3 /\ f4) => last.err = NotFoundErr
            /\ (~f1 /\ ~f2 /\ ~f3 /\ ~f4)
                  => last.err = (IF Stored(DecodeUserID(t)) = t THEN ""
                                 ELSE RevokedErr)

\* A token failing both the token_type and the user_id check was refused
\* with the error of the token_type check.
C7_Witness ==
    /\ last.op = "validate"
    /\ WellSigned(last.tok)
    /\ last.tok.typ # "refresh" /\ last.tok.uid.kind # "number"
    /\ last.err = "invalid token type"

\* C8: for a token that passed checks 1 to 3, ValidateRefreshToken returns
\* the not-found error exactly when no entry is stored under the user's
\* key, and the revoked error exactly when an entry is stored whose value
\* differs from the presented string.
C8_CacheFailures ==
    (/\ last.op = "validate" /\ WellSigned(last.tok)
     /\ last.tok.typ = "refresh" /\ last.tok.uid.kind = "number")
        => LET stored == Stored(DecodeUserID(last.tok))
           IN  /\ (last.err = NotFoundErr) <=> (stored = NoToken)
               /\ (last.err = RevokedErr)
                     <=> (stored # NoToken /\ stored # last.tok)

\* C9: GenerateRefreshToken returns a token only when the SET succeeded, the
\* token then being the value stored under the user's key; when the SET
\* fails it returns the empty string with "failed to store refresh token"
\* and the key keeps its value.
C9_IssuanceAtomic ==
    last.op = "generate" =>
        /\ last.rtok # NoToken
              => (last.err = "" /\ Stored(last.uid) = last.rtok)
        /\ last.rtok = NoToken
              => /\ last.err = "failed to store refresh token"
                 /\ Stored(last.uid) = last.old

\* The SET of a signed token failed and the call returned no token.
C9_Witness ==
    /\ last.op = "generate"
    /\ last.cause = "transport"
    /\ last.rtok = NoToken
    /\ last.err = "failed to store refresh token"

\* C10: a call sends at most one Redis command, GenerateRefreshToken and
\* RevokeRefreshToken exactly one; a transport failure of that command is
\* returned as a persistence error, which for ValidateRefreshToken is not
\* the not-found error of a missing key.
C10_TransportSurfaced ==
    /\ last.calls <= 1
    /\ last.op \in {"generate", "revoke"} => last.calls = 1
    /\ last.cause = "transport"
          => /\ last.err # ""
             /\ last.err # NotFoundErr
             /\ last.op \in {"generate", "revoke"}
                   => last.err \in PersistenceErrs

\* C11: RevokeRefreshToken(u) returns an error exactly when the DEL failed
\* at the transport, so it returns nil when the key holds no entry; after
\* a call that returned nil the key holds no entry and deleting it once
\* more leaves the cache as it is; a failed DEL leaves the key untouched.
C11_RevokeIdempotent ==
    last.op = "revoke" =>
        /\ (last.err # "") <=> (last.cause = "transport")
        /\ last.err # "" => last.err = "failed to revoke refresh token"
        /\ last.err = ""
              => (cache[last.uid] = NoEntry /\ RedisDel(last.uid) = cache)
        /\ last.err # "" => Stored(last.uid) = last.old

\* RevokeRefreshToken returned nil for a key that held no entry while the
\* other user's key held one.
C11_Witness ==
    /\ last.op = "revoke" /\ last.err = ""
    /\ last.old = NoToken
    /\ \E v \in UserIDs : v # last.uid /\ Stored(v) # NoToken

\* ------------------------------------------------ two concurrent issuances
\* The same calls as GenSign and GenStore, each goroutine keeping what its
\* finished call did until both have returned.  g1 signs first and g2 signs
\* before g1's SET is applied, so the two calls always overlap; the two SETs
\* are applied in either order.
Finished(p, setOK) ==
    [busy |-> FALSE, uid |-> gen[p].uid, tok |-> gen[p].tok, ok |-> setOK]

RaceSign(p, userID) ==
    /\ last = NoCall
    /\ gen[p] = Idle
    /\ p = "g2" => gen["g1"].busy
    /\ gen' = [gen EXCEPT ![p] =
                  [busy |-> TRUE, uid |-> userID,
                   tok |-> SignRefresh(userID, now)]]
    /\ UNCHANGED <<now, cache, last>>

RaceStore(p, setOK) ==
    /\ last = NoCall
    /\ gen[p].busy
    /\ cache' = IF setOK
                THEN RedisSet(gen[p].uid, gen[p].tok, RefreshTTL * TicksPerSec)
                ELSE cache
    /\ last' = GenerateRefreshTokenReturn(gen[p].uid, gen[p].tok, setOK)
    /\ gen' = [gen EXCEPT ![p] = Finished(p, setOK)]
    /\ UNCHANGED now

\* Both goroutines are ready for their next call.
RaceAgain ==
    /\ last = NoCall
    /\ \A p \in Procs : ~gen[p].busy
    /\ \E p \in Procs : gen[p] # Idle
    /\ gen' = [p \in Procs |-> Idle]
    /\ UNCHANGED <<now, cache, last>>

RaceNext ==
    \/ Tick
    \/ \E p \in Procs, u \in UserIDs : RaceSign(p, u)
    \/ \E p \in Procs, ok \in BOOLEAN : RaceStore(p, ok)
    \/ Return
    \/ RaceAgain

SpecRace == Init /\ [][RaceNext]_vars

\* The second of two overlapping GenerateRefreshToken calls for one user
\* has just returned; both calls returned a token.
BothReturned ==
    /\ last.op = "generate" /\ last.err = ""
    /\ \A p \in Procs : gen[p] # Idle /\ ~gen[p].busy /\ gen[p].ok
    /\ gen["g1"].uid = gen["g2"].uid

\* C12: when two overlapping GenerateRefreshToken(u) calls have both
\* returned, in whichever order their SETs were applied, the key of u holds
\* the token whose SET was applied last, that token (unexpired) validates
\* and returns u, and the other returned token, when it is a different
\* string and unexpired, is refused with the revoked error.
C12_LastWriterWins ==
    BothReturned =>
        /\ Stored(last.uid) = last.rtok
        /\ WellSigned(last.rtok)
              => (Answer(last.rtok).err = "" /\ Answer(last.rtok).ruid = last.uid)
        /\ \A p \in Procs :
              (gen[p].tok # last.rtok /\ WellSigned(gen[p].tok))
                  => Answer(gen[p].tok).err = RevokedErr

C14_Frame ==
    [][(last = NoCall /\ last'.op \in {"validate", "access"})
          => cache' = cache]_vars

\* A validation succeeded and the accepted token is still the stored one.
C14_Witness ==
    /\ last.op = "validate" /\ last.err = ""
    /\ Stored(last.ruid) = last.tok
    /\ cache[last.ruid].expireAt > now

\* ------------------------------------------------- the /api JWT middleware
\* json.Unmarshal of the payload into JWTClaims (server.go 28-33): user_id
\* must be a number when present; fields JWTClaims does not name, such as
\* token_type, are skipped.
ClaimsDecodeOK(tok) == tok.uid.kind # "string"

\* Mutant: a middleware that also wants the user's refresh token stored.
ApiParse_NeedsSession(tok) ==
    IF ~ClaimsDecodeOK(tok) THEN "token is malformed"
    ELSE IF tok.alg # "HS256" THEN "unexpected jwt signing method"
    ELSE IF tok.sig # "good" THEN "signature is invalid"
    ELSE IF Expired(tok) THEN "token is expired"
    ELSE IF NotYetValid(tok) THEN "token is not valid yet"
    ELSE IF tok.uid.kind = "number" /\ Stored(tok.uid.n) = NoToken
        THEN "session is closed"
    ELSE ""

\* echojwt with the Config of server.go 125-139: jwt.ParseWithClaims into
\* new(JWTClaims), the key handed out for SigningMethod "HS256" only, then
\* the signature and the registered time claims; "" when the token passes.
ApiParse(tok) ==
    IF ~ClaimsDecodeOK(tok) THEN "token is malformed"
    ELSE IF tok.alg # "HS256" THEN "unexpected jwt signing method"
    ELSE IF tok.sig # "good" THEN "signature is invalid"
    ELSE IF Expired(tok) THEN "token is expired"
    ELSE IF NotYetValid(tok) THEN "token is not valid yet"
    ELSE ""

\* The response to a request on a route of the /api group: the route's own
\* handler runs when the token passes, else ErrorHandler (server.go
\* 132-138) writes status 401 with err.Error() in the body.
ApiResponse(tok) ==
    LET err == ApiParse(tok)
    IN  IF err = "" THEN [status |-> 200]
        ELSE [status |-> 401, code |-> 401, message |-> "unauthorized",
              error |-> err]

\* A request with "Authorization: Bearer <tokenString>" on an /api route.
ApiRequest(tokenString) ==
    /\ last = NoCall
    /\ last' = Result("api", Zero, tokenString, NoToken, Zero,
                      ApiParse(tokenString), "", 0, NoToken)
    /\ UNCHANGED <<now, cache, gen>>

ApiNext ==
    \/ Tick
    \/ \E p \in Procs, u \in UserIDs : GenSign(p, u)
    \/ \E p \in Procs, ok \in BOOLEAN : GenStore(p, ok)
    \/ \E u \in UserIDs, r \in Roles : GenerateJWTToken(u, r)
    \/ \E u \in UserIDs, ok \in BOOLEAN : Revoke(u, ok)
    \/ \E t \in Presentable : ApiRequest(t)
    \/ Return

SpecApi == Init /\ [][ApiNext]_vars

\* The token is one GenerateJWTToken has issued.
IsAccessToken(t) == t \in Signable /\ t.role # ""

\* C15: the /api middleware accepts an access token of GenerateJWTToken
\* exactly when nbf <= now < exp, whatever the cache holds for its user:
\* nothing stored (never issued, revoked or expired), the refresh token of
\* the same instant or a later one.
C15_AccessStateless ==
    (last.op = "api" /\ IsAccessToken(last.tok))
        => ((last.err = "")
              <=> (/\ last.tok.nbf * TicksPerSec <= now
                   /\ now < last.tok.exp * TicksPerSec))

\* An access token was accepted while the key of its user held no entry
\* and the key of the other user held one.
C15_Witness ==
    /\ last.op = "api" /\ IsAccessToken(last.tok)
    /\ last.err = ""
    /\ Stored(last.tok.uid.n) = NoToken
    /\ \E v \in UserIDs : Stored(v) # NoToken

\* C16: the 401 response is the same for every way a token can fail: when
\* a request on /api was refused, every other token the middleware refuses
\* in the same state gets the response this request got, status and body.
C16_UniformRejection ==
    (last.op = "api" /\ last.err # "")
        => \A t \in Presentable :
              ApiParse(t) # "" => ApiResponse(t) = ApiResponse(last.tok)

\* C17: a successful GenerateRefreshToken returns a string that no earlier
\* successful call has returned; in particular it differs from the token
\* an earlier call stored under the user's key and that it now replaces,
\* also when both calls fall into one clock second.
C17_Unique ==
    (last.op = "generate" /\ last.err = "" /\ last.old # NoToken)
        => last.rtok # last.old

\* The refresh tokens GenerateRefreshToken can have signed by now.
RefreshTokens == { SignRefresh(u, t) : u \in UserIDs, t \in 0..now }

\* C18: (a) the time-to-live of the entry GenerateRefreshToken writes does
\* not run out before the exp of the token it holds; (b) hence the token
\* stored for a user, being neither replaced nor revoked, validates and
\* returns that user at every instant before its exp; (c) from its exp on
\* a refresh token is refused with the invalid-token error, not with
\* not-found, whether or not the entry is still there.
C18_NoEarlyLoss ==
    /\ \A u \in UserIDs :
          cache[u] # NoEntry
              => /\ cache[u].expireAt >= cache[u].val.exp * TicksPerSec
                 /\ ~Expired(cache[u].val)
                       => /\ Answer(cache[u].val).err = ""
                          /\ Answer(cache[u].val).ruid = u
    /\ \A t \in RefreshTokens :
          Expired(t) => Answer(t).err = "invalid refresh token"

\* C19: a call of GenerateRefreshToken(u) or RevokeRefreshToken(u) leaves,
\* for every other user v, the entry under v's key as it was and the
\* answer of ValidateRefreshToken to each refresh token of v as it was.
C19_Isolation ==
    [][\A u \in UserIDs :
          (last = NoCall /\ last'.op \in {"generate", "revoke"} /\ last'.uid = u)
              => \A v \in UserIDs \ {u} :
                    /\ cache'[v] = cache[v]
                    /\ \A t \in RefreshTokens :
                          t.uid.n = v
                              => /\ Answer(t)'.err = Answer(t).err
                                 /\ Answer(t)'.ruid = Answer(t).ruid]_vars

\* C20: a request on an /api route whose bearer token is a refresh token
\* that GenerateRefreshToken has issued is refused by the middleware; stated
\* for the issued token that is at present stored for its user.
C20_RefreshNotAccess ==
    (/\ last.op = "api" /\ last.tok \in RefreshTokens
     /\ cache[last.tok.uid.n].val = last.tok)
        => last.err # ""

\* ================================================================ Server.Run
\* The lifecycle specification uses the same variables for the process that
\* runs Server.Run: gen holds the position of the two goroutines and the
\* value Start has returned, last is the record of the process (what has
\* been called and how the process ended), now counts the seconds since
\* Stop was called; cache is not touched.
StopTimeout == 10

MaxConns == 2

Revisions == {"lifecycle.go", "part_003"}

Signals == {"SIGINT", "SIGTERM", "SIGQUIT"}

ErrServerClosed == "http: Server closed"

ErrAddrInUse == "listen: address already in use"

ErrDeadline == "context deadline exceeded"

Process(rev) ==
    [op |-> "run", rev |-> rev, sig |-> "", listening |-> FALSE, conns |-> 0,
     stop |-> "", synced |-> FALSE, exit |-> ""]

\* The process has not ended.
Running == last.exit = ""

\* Run, the goroutine's test of what Start returned:
\* err != nil && err != echo.ErrServiceUnavailable
StartErrFatal(err) == err # "" /\ err # "ErrServiceUnavailable"

RunInit ==
    /\ now = 0
    /\ cache = [u \in UserIDs |-> NoEntry]
    /\ gen = [main |-> "wait", serve |-> "start", err |-> ""]
    /\ last \in { Process(rev) : rev \in Revisions }

\* s.Start() in the goroutine (server.go 283-285): Echo.Start listens and
\* serves, or returns at once, with the listener's error or, when Shutdown
\* has been called before, with http.ErrServerClosed.
ServeStart(listenOK) ==
    /\ Running
    /\ gen.serve = "start"
    /\ IF last.stop # ""
       THEN /\ gen' = [gen EXCEPT !.serve = "returned", !.err = ErrServerClosed]
            /\ last' = last
       ELSE IF listenOK
       THEN /\ gen' = [gen EXCEPT !.serve = "serving"]
            /\ last' = [last EXCEPT !.listening = TRUE]
       ELSE /\ gen' = [gen EXCEPT !.serve = "returned", !.err = ErrAddrInUse]
            /\ last' = last
    /\ UNCHANGED <<now, cache>>

\* A request is accepted and is being handled.
Accept ==
    /\ Running
    /\ last.listening
    /\ last.conns < MaxConns
    /\ last' = [last EXCEPT !.conns = @ + 1]
    /\ UNCHANGED <<now, cache, gen>>

\* A request has been answered; its connection is idle.
Finish ==
    /\ Running
    /\ last.conns > 0
    /\ last' = [last EXCEPT !.conns = @ - 1]
    /\ UNCHANGED <<now, cache, gen>>

\* <-shutdown: one of the signals of signal.Notify arrives.
Signal(sig) ==
    /\ Running
    /\ gen.main = "wait"
    /\ gen' = [gen EXCEPT !.main = "stop"]
    /\ last' = [last EXCEPT !.sig = sig]
    /\ UNCHANGED <<now, cache>>

\* s.Stop(ctx) is called (server.go 287-289): Echo.Shutdown closes the
\* listener, which makes a serving Start return http.ErrServerClosed, and
\* then waits for the connections in use.
StopCall ==
    /\ Running
    /\ gen.main = "stop"
    /\ gen' = IF gen.serve = "serving"
              THEN [gen EXCEPT !.main = "stopping", !.serve = "returned",
                               !.err = ErrServerClosed]
              ELSE [gen EXCEPT !.main = "stopping"]
    /\ last' = [last EXCEPT !.stop = "called", !.listening = FALSE]
    /\ now' = 0
    /\ UNCHANGED cache

\* A second passes while Shutdown waits.
StopTick ==
    /\ Running
    /\ gen.main = "stopping"
    /\ last.conns > 0
    /\ now < StopTimeout
    /\ now' = now + 1
    /\ UNCHANGED <<cache, gen, last>>

\* Stop returns: nil when no connection is in use, the context's error
\* when the 10 seconds are over; Run calls Fatalf on an error.
StopReturn ==
    /\ Running
    /\ gen.main = "stopping"
    /\ last.conns = 0 \/ now = StopTimeout
    /\ IF last.conns = 0
       THEN /\ last' = [last EXCEPT !.stop = "nil"]
            /\ gen' = [gen EXCEPT !.main =
                          IF last.rev = "part_003" THEN "sync" ELSE "return"]
       ELSE /\ last' = [last EXCEPT !.stop = ErrDeadline,
                                    !.exit = "fatal: stop"]
            /\ gen' = [gen EXCEPT !.main = "exited"]
    /\ UNCHANGED <<now, cache>>

\* logger.Sync() (part_003 34-36); its error is only logged.
LoggerSync ==
    /\ Running
    /\ gen.main = "sync"
    /\ last' = [last EXCEPT !.synced = TRUE]
    /\ gen' = [gen EXCEPT !.main = "return"]
    /\ UNCHANGED <<now, cache>>

\* Run returns.
RunReturn ==
    /\ Running
    /\ gen.main = "return"
    /\ last' = [last EXCEPT !.exit = "return"]
    /\ gen' = [gen EXCEPT !.main = "returned"]
    /\ UNCHANGED <<now, cache>>

\* The goroutine looks at what Start returned: Fatalf ends the process
\* with os.Exit(1), else the goroutine ends.
ServeReturn ==
    /\ Running
    /\ gen.serve = "returned"
    /\ gen' = [gen EXCEPT !.serve = "done"]
    /\ last' = IF StartErrFatal(gen.err)
               THEN [last EXCEPT !.exit = "fatal: start"]
               ELSE last
    /\ UNCHANGED <<now, cache>>

RunNext ==
    \/ \E ok \in BOOLEAN : ServeStart(ok)
    \/ Accept
    \/ Finish
    \/ \E sig \in Signals : Signal(sig)
    \/ StopCall
    \/ StopTick
    \/ StopReturn
    \/ LoggerSync
    \/ RunReturn
    \/ ServeReturn

SpecRun == RunInit /\ [][RunNext]_vars

\* C21: when the process has ended after a shutdown signal, and neither
\* the listener had failed nor Stop ran into its 10 seconds, then it ended
\* by Run returning, after Stop returned nil and (part_003) after
\* logger.Sync; the goroutine of Start has not ended it with Fatalf because
\* Start returned on the shutdown.
C21_GracefulShutdown ==
    (/\ last.op = "run" /\ last.exit # "" /\ last.sig # ""
     /\ gen.err # ErrAddrInUse
     /\ last.stop # ErrDeadline)
        => /\ last.exit = "return"
           /\ last.stop = "nil"
           /\ last.rev = "part_003" => last.synced

\* ========================================================= CustomBinder.Bind
\* The binder specification uses the same variables for one request after
\* the other: gen holds the call of Bind that is due (the revision of the
\* code and what each stage would answer), last what the call returned and
\* which stages it ran; now and cache are not touched.
BindRevisions == {"validate.go 15-36", "validate.go 53-78", "validate.go 95-132"}

NoErr == [kind |-> "nil"]

PlainErr(text) == [kind |-> "error", text |-> text]

\* *custom_response.Errors, the error type the later revisions single out.
FieldErrs(text) == [kind |-> "*custom_response.Errors", text |-> text]

\* echo.NewHTTPError(code, message)
NewHTTPError(code, message) ==
    [kind |-> "*echo.HTTPError", code |-> code, message |-> message,
     text |-> "code, message"]

\* What cb.DefaultBinder.Bind(i, c) can return.
BindAnswers ==
    {NoErr, NewHTTPError(400, <<"Bad Request">>),
     NewHTTPError(415, <<"Unsupported Media Type">>)}

\* c.Echo().Validator: not configured, or what its Validate(i) returns.
ValidatorAnswers ==
    {[none |-> TRUE], NoErr, PlainErr("Field validation failed"),
     NewHTTPError(422, <<"Unprocessable Entity">>)}

\* i's own Validate(): no such method, or what it returns.
SelfAnswers ==
    {[none |-> TRUE], NoErr, PlainErr("name is required"),
     FieldErrs("name: required")}

Stages == <<"bind", "validator", "self">>

Calls ==
    [rev : BindRevisions, bind : BindAnswers, validator : ValidatorAnswers,
     self : SelfAnswers]

\* The error Bind returns for a failure of the default binder.
BindErr(rev, err) ==
    IF rev = "validate.go 95-132"
    THEN NewHTTPError(400, <<"message", "Invalid request format",
                             "error", err.text>>)
    ELSE err

\* The error Bind returns for a failure of Echo's validator.
ValidatorErr(rev, err) ==
    IF rev = "validate.go 95-132"
    THEN NewHTTPError(400, <<"message", "Validation failed",
                             "error", err.text>>)
    ELSE err

\* The error Bind returns for a failure of i.Validate().
SelfErr(rev, err) ==
    IF rev = "validate.go 15-36" THEN NewHTTPError(400, <<err.text>>)
    ELSE IF rev = "validate.go 53-78"
        THEN IF err.kind = "*custom_response.Errors"
             THEN NewHTTPError(400, <<"ToMap", err.text>>)
             ELSE NewHTTPError(400, <<err.text>>)
    ELSE IF err.kind = "*custom_response.Errors"
        THEN NewHTTPError(400, <<"message", "Validation failed",
                                 "errors", err.text>>)
    ELSE NewHTTPError(400, <<"message", "Validation failed",
                             "error", err.text>>)

BindResult(call, ran, err) ==
    [op |-> "bind", call |-> call, ran |-> ran, err |-> err]

\* Mutant: the result of Echo's validator is dropped.
Bind_ValidatorIgnored(call) ==
    IF call.bind # NoErr
    THEN BindResult(call, <<"bind">>, BindErr(call.rev, call.bind))
    ELSE LET ran2 == IF call.validator = [none |-> TRUE] THEN <<"bind">>
                     ELSE <<"bind", "validator">>
         IN  IF call.self = [none |-> TRUE]
             THEN BindResult(call, ran2, NoErr)
             ELSE IF call.self # NoErr
             THEN BindResult(call, ran2 \o <<"self">>,
                             SelfErr(call.rev, call.self))
             ELSE BindResult(call, ran2 \o <<"self">>, NoErr)

\* CustomBinder.Bind: the stages it runs and the error it returns.
Bind(call) ==
    IF call.bind # NoErr
    THEN BindResult(call, <<"bind">>, BindErr(call.rev, call.bind))
    ELSE LET ran2 == IF call.validator = [none |-> TRUE] THEN <<"bind">>
                     ELSE <<"bind", "validator">>
         IN  IF call.validator # [none |-> TRUE] /\ call.validator # NoErr
             THEN BindResult(call, ran2,
                             ValidatorErr(call.rev, call.validator))
             ELSE IF call.self = [none |-> TRUE]
             THEN BindResult(call, ran2, NoErr)
             ELSE IF call.self # NoErr
             THEN BindResult(call, ran2 \o <<"self">>,
                             SelfErr(call.rev, call.self))
             ELSE BindResult(call, ran2 \o <<"self">>, NoErr)

BinderInit ==
    /\ now = 0
    /\ cache = [u \in UserIDs |-> NoEntry]
    /\ gen \in Calls
    /\ last = NoCall

\* The handler calls c.Bind(i).
BindCall ==
    /\ last = NoCall
    /\ last' = Bind(gen)
    /\ UNCHANGED <<now, cache, gen>>

\* The next request comes in.
NextRequest(call) ==
    /\ last # NoCall
    /\ gen' = call
    /\ last' = NoCall
    /\ UNCHANGED <<now, cache>>

BinderNext ==
    \/ BindCall
    \/ \E call \in Calls : NextRequest(call)

SpecBinder == BinderInit /\ [][BinderNext]_vars

\* The stages that apply to a call, in the order of the code.
Applicable(call) ==
    SelectSeq(Stages, LAMBDA st : call[st] # [none |-> TRUE])

\* C22: Bind runs the stages that apply (default binder; Echo's validator
\* when configured; the value's own Validate when it has one) in this
\* order, stops after the first that fails without running a later one,
\* returns an error then, returns nil exactly when every stage that applies
\* succeeds, and returns a failure of the third stage as an HTTP error with
\* code 400.
C22_BindPipeline ==
    last.op = "bind" =>
        LET call == last.call
            app == Applicable(call)
            n == Len(last.ran)
        IN  /\ n >= 1 /\ n <= Len(app)
            /\ last.ran = SubSeq(app, 1, n)
            /\ \A k \in 1..(n - 1) : call[app[k]] = NoErr
            /\ n < Len(app) => call[app[n]] # NoErr
            /\ call[app[n]] # NoErr => last.err # NoErr
            /\ (last.err = NoErr)
                  <=> (\A k \in 1..Len(app) : call[app[k]] = NoErr)
            /\ (app[n] = "self" /\ call.self # NoErr)
                  => (last.err.kind = "*echo.HTTPError" /\ last.err.code = 400)

\* Echo's validator failed for a value whose own Validate would fail too:
\* Bind returned an error and did not run the third stage.
C22_Witness ==
    /\ last.op = "bind"
    /\ last.call.bind = NoErr
    /\ last.call.validator \notin {[none |-> TRUE], NoErr}
    /\ last.call.self \notin {[none |-> TRUE], NoErr}
    /\ last.ran = <<"bind", "validator">>
    /\ last.err # NoErr

====
